---- MODULE Spec2Model ----
(***************************************************************************)
(* SystemResourceMonitor (src/system_monitor.py): the sampling-and-history *)
(* engine and its tick loop.                                               *)
(*                                                                         *)
(* One tick is one call of get_system_stats.  It is modelled as the        *)
(* sequence of its statements (pc = "cpu", "disk", "net", "proc", "log"),  *)
(* followed by the rest of create_dashboard and the Live update            *)
(* (pc = "render") and, in the loop, time.sleep (pc = "sleep").  A         *)
(* KeyboardInterrupt may arrive between any two of these steps.            *)
(*                                                                         *)
(* psutil and the wall clock are the environment: os is what psutil would  *)
(* return now, clock is what time.time() would return now.  Both move      *)
(* while psutil.cpu_percent(interval=0.1) blocks at the start of a tick.   *)
(*                                                                         *)
(* Python's None is <<>> and a present value x is <<x>>.  A float n/1024   *)
(* is the record [num |-> n, den |-> 1024]; a formatted byte string such  *)
(* as "1.50 KB/s" is the record [whole |-> 1, cents |-> 50, unit |-> "KB", *)
(* suffix |-> "/s"].                                                       *)
(***************************************************************************)
EXTENDS Integers, Sequences, FiniteSets, TLC

VARIABLES
    \* fields of SystemResourceMonitor
    cpu_history, mem_history, disk_read_history, disk_write_history,
    network_send_history, network_recv_history,
    last_network_stats, last_disk_io, last_process_update, processes,
    \* contents of the file system_performance.log, one entry per line
    log_file,
    \* locals of the get_system_stats / get_disk_activity call in progress
    cpu_percent, mem_percent, read_bytes, write_bytes, disk_activity,
    sent_diff, recv_diff, stats,
    \* control: statement reached, whether run() is still on line 178
    \* ("first") or inside the try block ("loop"), the exception that left
    \* run() and the line that raised it, number of get_system_stats calls
    \* begun, dashboards given to Live
    pc, phase, exc, ticks, renders,
    \* environment
    clock, os,
    \* observations about the run, read by the properties only
    interrupted, sampled_at, elapsed, init_disk_io, init_network_stats,
    proc_seen, trace, pushed,
    \* a call of _convert_bytes on its own: argument and returned string
    cb_num, cb_ret

vars == << cpu_history, mem_history, disk_read_history, disk_write_history,
           network_send_history, network_recv_history,
           last_network_stats, last_disk_io, last_process_update, processes,
           log_file,
           cpu_percent, mem_percent, read_bytes, write_bytes, disk_activity,
           sent_diff, recv_diff, stats,
           pc, phase, exc, ticks, renders,
           clock, os,
           interrupted, sampled_at, elapsed, init_disk_io, init_network_stats,
           proc_seen, trace, pushed, cb_num, cb_ret >>

histories == << cpu_history, mem_history, disk_read_history, disk_write_history,
                network_send_history, network_recv_history >>
engine_rest == << last_network_stats, last_disk_io, last_process_update,
                  processes, log_file >>
locals == << cpu_percent, mem_percent, read_bytes, write_bytes, disk_activity,
             sent_diff, recv_diff, stats >>
observed == << sampled_at, elapsed, init_disk_io, init_network_stats,
               proc_seen, trace, pushed >>
call == << cb_num, cb_ret >>

-----------------------------------------------------------------------------
(* Bounds of the exploration *)

\* get_system_stats calls explored under Spec
MaxTicks == 3
\* get_system_stats calls explored under SpecSteady (more than maxlen)
MaxTicksSteady == 52

-----------------------------------------------------------------------------
(* Python values *)

None == << >>
Some(x) == << x >>
Val(o) == o[1]

Min(a, b) == IF a < b THEN a ELSE b

-----------------------------------------------------------------------------
(* Program constants *)

\* deque(maxlen=50)
maxlen == 50
\* self.process_update_interval = 2
process_update_interval == 2
\* sorted(...)[:10]
TopN == 10

-----------------------------------------------------------------------------
(* collections.deque(maxlen=50).append *)

PushUnbounded(buf, v) == Append(buf, v)

PushDropsNewest(buf, v) ==
    IF Len(buf) >= maxlen THEN buf ELSE Append(buf, v)

Push(buf, v) ==
    IF Len(buf) >= maxlen THEN Append(Tail(buf), v) ELSE Append(buf, v)

DivThousand(x) == [num |-> x, den |-> 1000]

\* x / 1024 on a Python int: the float x/1024, exact
DivKB(x) == [num |-> x, den |-> 1024]

-----------------------------------------------------------------------------
(* _convert_bytes *)

Units == << "B", "KB", "MB", "GB", "TB" >>

\* the divisor 1024.0
Base == 1024

\* The value of the Python variable num is held in base 1024, so that the
\* division by 1024.0 is exact at every size, as it is on a float: whole
\* is the integer part, lowest digit first and without leading zeros, frac
\* the digits after the point, highest first.
RECURSIVE ToDigits(_)
ToDigits(n) ==
    IF n < Base THEN << n >> ELSE << n % Base >> \o ToDigits(n \div Base)

RECURSIVE FromDigits(_)
FromDigits(ds) ==
    IF ds = << >> THEN 0 ELSE Head(ds) + Base * FromDigits(Tail(ds))

\* 100 * 0.frac, as integer part and digits after the point
RECURSIVE Times100(_)
Times100(frac) ==
    IF frac = << >> THEN [int |-> 0, frac |-> << >>]
    ELSE LET t == Times100(Tail(frac))
             v == 100 * Head(frac) + t.int
         IN  [int |-> v \div Base, frac |-> << v % Base >> \o t.frac]

AllZero(ds) == \A i \in 1..Len(ds) : ds[i] = 0

\* 0.frac against one half: -1 below, 0 equal, 1 above
HalfCmp(frac) ==
    IF frac = << >> \/ 2 * Head(frac) < Base THEN -1
    ELSE IF 2 * Head(frac) > Base THEN 1
    ELSE IF AllZero(Tail(frac)) THEN 0
    ELSE 1

Format2Truncates(whole, frac, unit) ==
    [whole |-> FromDigits(whole), cents |-> Times100(frac).int,
     unit |-> unit, suffix |-> ""]

\* f"{num:.2f} {unit}": the format specification .2f rounds the exact value
\* of the float to the nearest hundredth, a tie to the even one
Format2(whole, frac, unit) ==
    LET w == FromDigits(whole)
        c == Times100(frac)
        h == HalfCmp(c.frac)
        cents == IF h > 0 \/ (h = 0 /\ c.int % 2 = 1) THEN c.int + 1
                 ELSE c.int
    IN  [whole |-> IF cents = 100 THEN w + 1 ELSE w,
         cents |-> cents % 100, unit |-> unit, suffix |-> ""]

\* the for loop of _convert_bytes at its i-th unit; num < 1024.0 says that
\* the integer part has a single digit
RECURSIVE ConvertLoop(_, _, _)
ConvertLoop(whole, frac, i) ==
    IF Len(whole) <= 1 THEN Format2(whole, frac, Units[i])
    ELSE IF i = Len(Units)
         THEN Format2(Tail(whole), << Head(whole) >> \o frac, "PB")
    ELSE ConvertLoop(Tail(whole), << Head(whole) >> \o frac, i + 1)

\* _convert_bytes of the non-negative integer with the digits ds
convert_digits(ds) == ConvertLoop(ds, << >>, 1)

\* a negative num is below 1024.0 at the first unit and is formatted there
_convert_bytes(num) ==
    IF num < 0 THEN [whole |-> num, cents |-> 0, unit |-> "B", suffix |-> ""]
    ELSE convert_digits(ToDigits(num))

\* s + '/s'
PerSec(s) == [s EXCEPT !.suffix = "/s"]

-----------------------------------------------------------------------------
(* get_running_processes *)

\* What psutil.process_iter(attrs) yields for one process: info values are
\* None where psutil was denied access (as_dict's ad_value); raises says
\* that reading the entry raises NoSuchProcess or AccessDenied.
\* The dict appended at lines 51-57.
ProcessDict(p) ==
    [pid |-> p.pid,
     name |-> p.name,
     cpu |-> p.cpu_percent,
     memory |-> p.memory_percent,
     cmd |-> IF p.cmdline # None /\ Val(p.cmdline) # << >>
             THEN Some(SubSeq(Val(p.cmdline), 1, Min(2, Len(Val(p.cmdline)))))
             ELSE IF p.name = None THEN None ELSE Some(<< Val(p.name) >>)]

\* the for loop of lines 49-59: a process whose entry raises is skipped
RECURSIVE Collect(_)
Collect(raw) ==
    IF raw = << >> THEN << >>
    ELSE IF Head(raw).raises THEN Collect(Tail(raw))
    ELSE << ProcessDict(Head(raw)) >> \o Collect(Tail(raw))

\* Python's comparison of the key tuples (cpu, memory) of a and b reaches a
\* None and a number: '<' raises TypeError
KeyUnorderable(a, b) ==
    IF a.cpu # b.cpu THEN (a.cpu = None) # (b.cpu = None)
    ELSE a.memory # b.memory /\ ((a.memory = None) # (b.memory = None))

\* sorted() has to order every pair of its elements
SortRaises(ps) ==
    \E i, j \in 1..Len(ps) : i < j /\ KeyUnorderable(ps[i], ps[j])

\* (a.cpu, a.memory) > (b.cpu, b.memory), for orderable keys
KeyGT(a, b) ==
    IF a.cpu # b.cpu THEN Val(a.cpu) > Val(b.cpu)
    ELSE IF a.memory # b.memory THEN Val(a.memory) > Val(b.memory)
    ELSE FALSE

\* x put before the first element whose key is smaller than its own
RECURSIVE InsertDesc(_, _)
InsertDesc(ps, x) ==
    IF ps = << >> THEN << x >>
    ELSE IF KeyGT(x, Head(ps)) THEN << x >> \o ps
    ELSE << Head(ps) >> \o InsertDesc(Tail(ps), x)

\* sorted(processes, key=(cpu, memory), reverse=True): stable, so equal keys
\* keep the order of the enumeration
RECURSIVE SortedDesc(_)
SortedDesc(ps) ==
    IF ps = << >> THEN << >>
    ELSE InsertDesc(SortedDesc(SubSeq(ps, 1, Len(ps) - 1)), ps[Len(ps)])

\* [:10]
Top(ps) == SubSeq(ps, 1, Min(TopN, Len(ps)))

\* the value get_running_processes returns when sorted() does not raise
get_running_processes(raw) == Top(SortedDesc(Collect(raw)))

-----------------------------------------------------------------------------
(* The environment: what psutil returns *)

DiskIO(r, w) == Some([read_bytes |-> r, write_bytes |-> w])
NetIO(s, r) == Some([bytes_sent |-> s, bytes_recv |-> r])

\* a process psutil reads in full
Proc(pid, cpu, mem) ==
    [pid |-> pid, name |-> Some("worker"), cpu_percent |-> Some(cpu),
     memory_percent |-> Some(mem),
     cmdline |-> Some(<< "worker", "--id", "x" >>), raises |-> FALSE]
\* a process psutil is denied access to: as_dict fills its values with None
DeniedProc(pid) ==
    [pid |-> pid, name |-> Some("system"), cpu_percent |-> None,
     memory_percent |-> None, cmdline |-> None, raises |-> FALSE]
\* a process whose entry raises NoSuchProcess when it is read
GoneProc(pid) ==
    [pid |-> pid, name |-> None, cpu_percent |-> None,
     memory_percent |-> None, cmdline |-> None, raises |-> TRUE]

BigCpu == << 5, 90, 5, 30, 0, 30, 70, 0, 5, 30, 1, 90 >>
BigMem == << 1, 2, 3, 1, 0, 1, 4, 2, 3, 6, 1, 2 >>
\* twelve readable processes, with equal keys among them
TableBig == [i \in 1..12 |-> Proc(i, BigCpu[i], BigMem[i])]
\* one process vanishes between enumeration and read
TableGone == << Proc(1, 5, 1), GoneProc(2), Proc(3, 9, 2) >>
\* the only process is one psutil is denied access to
TableDenied == << DeniedProc(4) >>
\* a readable process and a denied one
TableMixed == << Proc(1, 5, 1), DeniedProc(4) >>

OsState(cpu, mem, disk, net, procs) ==
    [cpu |-> cpu, mem |-> mem, disk |-> disk, net |-> net, procs |-> procs]

\* the machine at construction
OsBoot == OsState(12, 40, DiskIO(0, 0), NetIO(0, 0), TableBig)
\* a diskless machine: psutil.disk_io_counters() is None
OsNoDisk == OsState(12, 40, None, NetIO(0, 0), TableBig)
\* a machine without network interfaces: psutil.net_io_counters() is None
OsNoNet == OsState(12, 40, DiskIO(0, 0), None, TableBig)

InitOsStates == { OsBoot, OsNoDisk, OsNoNet }
InitClocks == { 0, 10 }

OsStates ==
    { OsBoot,
      OsState(87, 63, DiskIO(10240, 2048), NetIO(1536, 3000), TableGone),
      \* counters below the ones above: a counter reset
      OsState(50, 40, DiskIO(5000, 100), NetIO(500, 3000), TableBig),
      OsState(87, 63, DiskIO(10240, 2048), NetIO(1536, 3000), TableMixed),
      OsState(12, 40, DiskIO(10240, 2048), NetIO(1536, 3000), TableDenied),
      OsNoDisk, OsNoNet }

\* seconds the clock moves from one tick to the next
ClockSteps == { 1, 2, 3 }
\* seconds between construction and the first tick
StartSteps == { 0, 1 }

\* a machine under steady load: every tick reads values of its own
OsSteady(n) ==
    OsState((7 * n) % 100, (3 * n + 1) % 100,
            DiskIO(512 * n * (n + 1), 1024 * n),
            NetIO(100 * n * n, 300 * n), TableGone)

-----------------------------------------------------------------------------
(* Initial state: SystemResourceMonitor.__init__ (lines 13-26) *)

\* no exception has left run()
NoExc == [type |-> "none", line |-> 0]
\* the exception of the given type raised at the given source line
Raised(type, line) == [type |-> type, line |-> line]

NoText == [whole |-> 0, cents |-> 0, unit |-> "B", suffix |-> ""]
NoStats ==
    [cpu |-> 0, memory |-> 0,
     disk_activity |-> [read |-> NoText, write |-> NoText],
     network |-> [sent |-> NoText, received |-> NoText]]

InitWith(osSet, clockSet) ==
    /\ os \in osSet
    /\ clock \in clockSet
    /\ cpu_history = << >>
    /\ mem_history = << >>
    /\ disk_read_history = << >>
    /\ disk_write_history = << >>
    /\ network_send_history = << >>
    /\ network_recv_history = << >>
    /\ last_network_stats = os.net
    /\ last_disk_io = os.disk
    /\ last_process_update = 0
    /\ processes = << >>
    /\ log_file = << >>
    /\ cpu_percent = 0
    /\ mem_percent = 0
    /\ read_bytes = 0
    /\ write_bytes = 0
    /\ disk_activity = [read |-> NoText, write |-> NoText]
    /\ sent_diff = 0
    /\ recv_diff = 0
    /\ stats = NoStats
    /\ pc = "cpu"
    /\ phase = "first"
    /\ exc = NoExc
    /\ ticks = 0
    /\ renders = 0
    /\ interrupted = FALSE
    /\ sampled_at = clock
    /\ elapsed = 0
    /\ init_disk_io = os.disk
    /\ init_network_stats = os.net
    /\ proc_seen = None
    /\ trace = << >>
    /\ pushed = [cpu |-> << >>, mem |-> << >>, disk_read |-> << >>,
                 disk_write |-> << >>, net_send |-> << >>, net_recv |-> << >>]

NoCall == cb_num = None /\ cb_ret = None

Init == InitWith(InitOsStates, InitClocks) /\ NoCall

InitSteady == InitWith({ OsSteady(0) }, { 10 }) /\ NoCall

-----------------------------------------------------------------------------
(* get_system_stats, lines 63-66 *)

\* psutil.cpu_percent(interval=0.1) blocks; when it returns the clock has
\* moved by d and the machine is in state o
get_system_stats_cpu(maxTicks, d, o) ==
    /\ pc = "cpu"
    /\ ticks < maxTicks
    /\ clock' = clock + d
    /\ os' = o
    /\ cpu_percent' = o.cpu
    /\ cpu_history' = Push(cpu_history, o.cpu)
    /\ mem_percent' = o.mem
    /\ mem_history' = Push(mem_history, o.mem)
    /\ pushed' = [pushed EXCEPT !.cpu = Append(@, o.cpu),
                                !.mem = Append(@, o.mem)]
    /\ ticks' = ticks + 1
    /\ pc' = "disk"
    /\ UNCHANGED << disk_read_history, disk_write_history,
                    network_send_history, network_recv_history, engine_rest,
                    read_bytes, write_bytes, disk_activity, sent_diff,
                    recv_diff, stats, phase, exc, renders, interrupted,
                    sampled_at, elapsed, init_disk_io, init_network_stats,
                    proc_seen, trace >>
    /\ UNCHANGED call

-----------------------------------------------------------------------------
(* get_disk_activity, lines 35-45 *)

\* lines 37-38
DiskDelta(current, last) ==
    [read |-> current.read_bytes - last.read_bytes,
     write |-> current.write_bytes - last.write_bytes]

KeepLast(current, last) == last

\* line 39 and line 73: the reading kept for the next tick
NextLast(current, last) == current

get_disk_activity ==
    /\ pc = "disk"
    /\ IF os.disk = None \/ last_disk_io = None
       THEN \* None.read_bytes
            /\ pc' = "error"
            /\ exc' = Raised("AttributeError", 37)
            /\ UNCHANGED << histories, engine_rest, locals, observed >>
       ELSE LET current_disk_io == Val(os.disk)
                delta == DiskDelta(current_disk_io, Val(last_disk_io))
            IN  /\ read_bytes' = delta.read
                /\ write_bytes' = delta.write
                /\ last_disk_io' = Some(NextLast(current_disk_io, Val(last_disk_io)))
                /\ disk_read_history' = Push(disk_read_history, DivKB(delta.read))
                /\ disk_write_history' = Push(disk_write_history, DivKB(delta.write))
                /\ pushed' = [pushed EXCEPT
                                !.disk_read = Append(@, DivKB(delta.read)),
                                !.disk_write = Append(@, DivKB(delta.write))]
                /\ disk_activity' =
                       [read |-> PerSec(_convert_bytes(delta.read)),
                        write |-> PerSec(_convert_bytes(delta.write))]
                /\ elapsed' = clock - sampled_at
                /\ sampled_at' = clock
                /\ pc' = "net"
                /\ UNCHANGED << cpu_history, mem_history, network_send_history,
                                network_recv_history, last_network_stats,
                                last_process_update, processes, log_file,
                                cpu_percent, mem_percent, sent_diff, recv_diff,
                                stats, exc, init_disk_io, init_network_stats,
                                proc_seen, trace >>
    /\ UNCHANGED << phase, ticks, renders, clock, os, interrupted >>
    /\ UNCHANGED call

-----------------------------------------------------------------------------
(* get_system_stats, lines 68-73 *)

\* lines 69-70
NetDelta(current, last) ==
    [sent |-> current.bytes_sent - last.bytes_sent,
     recv |-> current.bytes_recv - last.bytes_recv]

get_system_stats_network ==
    /\ pc = "net"
    /\ IF os.net = None \/ last_network_stats = None
       THEN \* None.bytes_sent
            /\ pc' = "error"
            /\ exc' = Raised("AttributeError", 69)
            /\ UNCHANGED << histories, engine_rest, locals, observed >>
       ELSE LET current_network_stats == Val(os.net)
                delta == NetDelta(current_network_stats, Val(last_network_stats))
            IN  /\ sent_diff' = delta.sent
                /\ recv_diff' = delta.recv
                /\ network_send_history' = Push(network_send_history, DivKB(delta.sent))
                /\ network_recv_history' = Push(network_recv_history, DivKB(delta.recv))
                /\ pushed' = [pushed EXCEPT
                                !.net_send = Append(@, DivKB(delta.sent)),
                                !.net_recv = Append(@, DivKB(delta.recv))]
                /\ last_network_stats' =
                       Some(NextLast(current_network_stats, Val(last_network_stats)))
                /\ pc' = "proc"
                /\ UNCHANGED << cpu_history, mem_history, disk_read_history,
                                disk_write_history, last_disk_io,
                                last_process_update, processes, log_file,
                                cpu_percent, mem_percent, read_bytes,
                                write_bytes, disk_activity, stats, exc,
                                sampled_at, elapsed, init_disk_io,
                                init_network_stats, proc_seen, trace >>
    /\ UNCHANGED << phase, ticks, renders, clock, os, interrupted >>
    /\ UNCHANGED call

-----------------------------------------------------------------------------
(* get_system_stats, lines 75-77 *)

AlwaysDue(now, last) == TRUE

SwappedDue(now, last) == last - now > process_update_interval

DueAtInterval(now, last) == now - last >= process_update_interval

\* line 75.  The clock moves only while cpu_percent blocks, so the
\* time.time() of line 77 returns what the one of line 75 returned.
RefreshDue(now, last) == now - last > process_update_interval

get_system_stats_processes ==
    /\ pc = "proc"
    /\ IF RefreshDue(clock, last_process_update)
       THEN IF SortRaises(Collect(os.procs))
            THEN \* sorted() compares a None with a number
                 /\ pc' = "error"
                 /\ exc' = Raised("TypeError", 60)
                 /\ proc_seen' = Some(os.procs)
                 /\ trace' = Append(trace, [t |-> clock, enumerated |-> TRUE])
                 /\ UNCHANGED << processes, last_process_update >>
            ELSE /\ processes' = get_running_processes(os.procs)
                 /\ last_process_update' = clock
                 /\ proc_seen' = Some(os.procs)
                 /\ trace' = Append(trace, [t |-> clock, enumerated |-> TRUE])
                 /\ pc' = "log"
                 /\ exc' = exc
       ELSE /\ proc_seen' = None
            /\ trace' = Append(trace, [t |-> clock, enumerated |-> FALSE])
            /\ pc' = "log"
            /\ UNCHANGED << processes, last_process_update, exc >>
    /\ UNCHANGED << histories, last_network_stats, last_disk_io, log_file,
                    locals, phase, ticks, renders, clock, os, interrupted,
                    sampled_at, elapsed, init_disk_io, init_network_stats,
                    pushed >>
    /\ UNCHANGED call

-----------------------------------------------------------------------------
(* get_system_stats, lines 79-89, and log_performance, lines 91-96 *)

\* lines 79-87
BuildStats ==
    [cpu |-> cpu_percent,
     memory |-> mem_percent,
     disk_activity |-> disk_activity,
     network |-> [sent |-> PerSec(_convert_bytes(sent_diff)),
                  received |-> PerSec(_convert_bytes(recv_diff))]]

\* the line written at lines 94-96
LogLine(st) ==
    [timestamp |-> clock, cpu |-> st.cpu, memory |-> st.memory,
     disk_read |-> st.disk_activity.read, disk_write |-> st.disk_activity.write,
     network_sent |-> st.network.sent, network_received |-> st.network.received]

Truncating(file, line) == << line >>

\* open(self.log_file, "a") and f.write of one line
WriteLine(file, line) == Append(file, line)

\* the append to the log file is taken to succeed
log_performance ==
    /\ pc = "log"
    /\ stats' = BuildStats
    /\ log_file' = WriteLine(log_file, LogLine(BuildStats))
    /\ pc' = "render"
    /\ UNCHANGED << histories, last_network_stats, last_disk_io,
                    last_process_update, processes, cpu_percent, mem_percent,
                    read_bytes, write_bytes, disk_activity, sent_diff,
                    recv_diff, phase, exc, ticks, renders, clock, os,
                    interrupted, observed >>
    /\ UNCHANGED call

-----------------------------------------------------------------------------
(* create_dashboard, lines 122-175, and the Live display of lines 178, 181 *)

\* create_process_table, lines 110-117: slicing or formatting a None
TableRaises(ps) ==
    \E i \in 1..Len(ps) :
        ps[i].name = None \/ ps[i].cpu = None \/ ps[i].memory = None
            \/ ps[i].cmd = None

create_dashboard ==
    /\ pc = "render"
    /\ IF TableRaises(processes)
       THEN /\ pc' = "error"
            /\ exc' = Raised("TypeError", 113)
            /\ UNCHANGED << renders, phase >>
       ELSE /\ renders' = renders + 1
            /\ exc' = exc
            /\ IF phase = "first"
               THEN \* Live(...) is entered, then the try block and the loop
                    /\ phase' = "loop"
                    /\ pc' = "cpu"
               ELSE /\ phase' = phase
                    /\ pc' = "sleep"
    /\ UNCHANGED << histories, engine_rest, locals, ticks, clock, os,
                    interrupted, observed >>
    /\ UNCHANGED call

-----------------------------------------------------------------------------
(* run, lines 177-184 *)

\* time.sleep(0.25)
run_sleep ==
    /\ pc = "sleep"
    /\ pc' = "cpu"
    /\ UNCHANGED << histories, engine_rest, locals, phase, exc, ticks, renders,
                    clock, os, interrupted, observed >>
    /\ UNCHANGED call

\* Ctrl-C while run() executes
KeyboardInterrupt ==
    /\ pc \notin { "done", "error" }
    /\ interrupted' = TRUE
    /\ IF phase = "loop"
       THEN \* caught at line 183; run() returns
            /\ pc' = "done"
            /\ exc' = exc
       ELSE \* line 178 is outside the try block
            /\ pc' = "error"
            /\ exc' = Raised("KeyboardInterrupt", 178)
    /\ UNCHANGED << histories, engine_rest, locals, phase, ticks, renders,
                    clock, os, observed >>
    /\ UNCHANGED call

-----------------------------------------------------------------------------
(* Specifications *)

Next ==
    \/ \E d \in (IF ticks = 0 THEN StartSteps ELSE ClockSteps), o \in OsStates :
           get_system_stats_cpu(MaxTicks, d, o)
    \/ get_disk_activity
    \/ get_system_stats_network
    \/ get_system_stats_processes
    \/ log_performance
    \/ create_dashboard
    \/ run_sleep
    \/ KeyboardInterrupt

Spec == Init /\ [][Next]_vars

\* a long run on a machine under steady load, the clock moving one second
\* a tick
NextSteady ==
    \/ get_system_stats_cpu(MaxTicksSteady, 1, OsSteady(ticks + 1))
    \/ get_disk_activity
    \/ get_system_stats_network
    \/ get_system_stats_processes
    \/ log_performance
    \/ create_dashboard
    \/ run_sleep
    \/ KeyboardInterrupt

SpecSteady == InitSteady /\ [][NextSteady]_vars

-----------------------------------------------------------------------------
(* The tick loop under a wall clock that may be set backwards *)

\* get_system_stats calls explored under SpecFair
MaxTicksFair == 4
\* what time.time() moves by between two ticks
ClockJumps == { -3, 1, 3 }
TablePair == << Proc(7, 50, 2), Proc(3, 9, 2) >>
\* what psutil returns on the n-th tick: an idle and a busy machine in turn
OsFair(n) ==
    IF n % 2 = 0 THEN OsState(3, 40, DiskIO(0, 0), NetIO(0, 0), TableGone)
    ELSE OsState(87, 63, DiskIO(10240, 2048), NetIO(1536, 3000), TablePair)

InitFair == InitWith({ OsFair(0) }, InitClocks) /\ NoCall

\* the statements of run(): the program goes on to its next statement for
\* as long as run() has not been left
RunStep ==
    \/ \E d \in ClockJumps :
           get_system_stats_cpu(MaxTicksFair, d, OsFair(ticks + 1))
    \/ get_disk_activity
    \/ get_system_stats_network
    \/ get_system_stats_processes
    \/ log_performance
    \/ create_dashboard
    \/ run_sleep

NextFair ==
    \/ \E d \in ClockJumps :
           get_system_stats_cpu(MaxTicksFair, d, OsFair(ticks + 1))
    \/ get_disk_activity
    \/ get_system_stats_network
    \/ get_system_stats_processes
    \/ log_performance
    \/ create_dashboard
    \/ run_sleep
    \/ KeyboardInterrupt

SpecFair == InitFair /\ [][NextFair]_vars /\ WF_vars(RunStep)

-----------------------------------------------------------------------------
(* _convert_bytes called on its own *)

\* Byte counts top * 1024^shift + next * 1024^(shift-1) + low * 1024^(shift-2):
\* a leading digit and the two digits that decide the hundredths, at every
\* unit from B to PB and one step beyond.  Each has at most 30 significant
\* bits and is held by a float exactly.
MaxShift == 6
TopDigits == { 1, 2, 512, 1023 }
NextDigits == { 0, 1, 5, 128, 384, 512, 640, 1019, 1023 }
LowDigits == { 0, 1 }
ByteCount(top, next, low, shift) ==
    [top |-> top, next |-> next, low |-> low, shift |-> shift]
ByteCounts ==
    { ByteCount(t, 0, 0, 0) : t \in TopDigits \cup { 0 } }
    \cup { ByteCount(t, n, 0, 1) : t \in TopDigits, n \in NextDigits }
    \cup { ByteCount(t, n, l, k) : t \in TopDigits, n \in NextDigits,
                                   l \in LowDigits, k \in 2..MaxShift }

RECURSIVE Zeros(_)
Zeros(k) == IF k <= 0 THEN << >> ELSE << 0 >> \o Zeros(k - 1)

\* the digits of a byte count, lowest first
Digits(n) ==
    IF n.shift = 0 THEN << n.top >>
    ELSE IF n.shift = 1 THEN << n.next, n.top >>
    ELSE Zeros(n.shift - 2) \o << n.low, n.next, n.top >>

InitConvert ==
    /\ InitWith({ OsBoot }, { 0 })
    /\ cb_num \in { Some(n) : n \in ByteCounts }
    /\ cb_ret = None

\* self._convert_bytes(num) + '/s'
convert_call ==
    /\ cb_num # None
    /\ cb_ret = None
    /\ cb_ret' = Some(PerSec(convert_digits(Digits(Val(cb_num)))))
    /\ UNCHANGED << histories, engine_rest, locals, pc, phase, exc, ticks,
                    renders, clock, os, interrupted, observed, cb_num >>

NextConvert == convert_call

SpecConvert == InitConvert /\ [][NextConvert]_vars

-----------------------------------------------------------------------------
(* Properties *)

\* the tick in progress has taken both counter samples and the machine has
\* not moved since
Sampled == pc \in { "proc", "log", "render", "sleep" }
\* the tick in progress has passed lines 75-77
PastRefresh == pc \in { "log", "render", "sleep" }
\* the tick in progress has built its stats
Reported == pc \in { "render", "sleep" }

Last(seq) == seq[Len(seq)]

RECURSIVE SumNum(_)
SumNum(seq) == IF seq = << >> THEN 0 ELSE Head(seq).num + SumNum(Tail(seq))

NonNegative(seq) == \A i \in 1..Len(seq) : seq[i].num >= 0

\* C1: every delta a tick reports in its stats or appends to the disk and
\* network histories is >= 0, also after a counter reset.
C1_RatesNeverNegative ==
    /\ NonNegative(disk_read_history)
    /\ NonNegative(disk_write_history)
    /\ NonNegative(network_send_history)
    /\ NonNegative(network_recv_history)
    /\ stats.disk_activity.read.whole >= 0
    /\ stats.disk_activity.write.whole >= 0
    /\ stats.network.sent.whole >= 0
    /\ stats.network.received.whole >= 0

\* the last maxlen values of all, oldest first
LastK(all) == SubSeq(all, Len(all) - Min(maxlen, Len(all)) + 1, Len(all))

\* C2: after n pushes a history buffer has min(50, n) entries, which are the
\* most recently pushed values in the order they were pushed.
C2_HistoryHoldsLastK ==
    /\ cpu_history = LastK(pushed.cpu)
    /\ mem_history = LastK(pushed.mem)
    /\ disk_read_history = LastK(pushed.disk_read)
    /\ disk_write_history = LastK(pushed.disk_write)
    /\ network_send_history = LastK(pushed.net_send)
    /\ network_recv_history = LastK(pushed.net_recv)
    /\ Len(cpu_history) = Min(maxlen, Len(pushed.cpu))
    /\ Len(network_recv_history) = Min(maxlen, Len(pushed.net_recv))

\* all six buffers are full and have evicted two entries each
C2_Witness ==
    /\ Len(pushed.net_recv) = maxlen + 2
    /\ Len(pushed.cpu) = maxlen + 2
    /\ cpu_history[1] = pushed.cpu[3]
    /\ cpu_history[1] # pushed.cpu[1]
    /\ network_recv_history[maxlen] = pushed.net_recv[maxlen + 2]

\* C3: lines 75-77 run while now - last_process_update is within the
\* interval enumerate nothing and leave processes and last_process_update
\* as they were.
C3_NoRefreshWithinInterval ==
    [][ (pc = "proc" /\ clock - last_process_update <= process_update_interval)
          => /\ processes' = processes
             /\ last_process_update' = last_process_update
             /\ (trace' # trace => ~Last(trace').enumerated) ]_vars

\* a tick inside the interval exposes the list of an earlier refresh although
\* the machine now runs other processes
C3_Witness ==
    /\ pc = "log"
    /\ Len(trace) >= 2
    /\ ~Last(trace).enumerated
    /\ \E i \in 1..Len(trace) : trace[i].enumerated
    /\ processes # << >>
    /\ os.procs = TableGone
    /\ processes # get_running_processes(os.procs)

\* the rate the claim expects where the code reports text and appends hist
\* for the counter difference delta
RateOverElapsed(text, hist, delta) ==
    /\ hist.num * elapsed * 1024 = delta * hist.den
    /\ delta % elapsed = 0 => text = PerSec(_convert_bytes(delta \div elapsed))

\* C4: every disk and network rate a tick reports is the counter difference
\* divided by the time elapsed since the previous sample (stated for the
\* ticks on which no counter went down).
C4_RateDividesByElapsed ==
    (Reported /\ elapsed > 0 /\ read_bytes >= 0 /\ write_bytes >= 0
        /\ sent_diff >= 0 /\ recv_diff >= 0) =>
        /\ RateOverElapsed(stats.disk_activity.read, Last(disk_read_history),
                           read_bytes)
        /\ RateOverElapsed(stats.disk_activity.write, Last(disk_write_history),
                           write_bytes)
        /\ RateOverElapsed(stats.network.sent, Last(network_send_history),
                           sent_diff)
        /\ RateOverElapsed(stats.network.received, Last(network_recv_history),
                           recv_diff)

\* C5: after a tick's samples last_disk_io and last_network_stats are the
\* readings of that tick, and the deltas pushed so far add up to the latest
\* reading minus the reading taken at construction.
C5_DeltasAgainstPreviousReading ==
    ((Sampled \/ (pc = "cpu" /\ ticks > 0)) /\ ticks <= maxlen) =>
        /\ last_disk_io = os.disk
        /\ last_network_stats = os.net
        /\ SumNum(disk_read_history) =
               Val(last_disk_io).read_bytes - Val(init_disk_io).read_bytes
        /\ SumNum(disk_write_history) =
               Val(last_disk_io).write_bytes - Val(init_disk_io).write_bytes
        /\ SumNum(network_send_history) =
               Val(last_network_stats).bytes_sent - Val(init_network_stats).bytes_sent
        /\ SumNum(network_recv_history) =
               Val(last_network_stats).bytes_recv - Val(init_network_stats).bytes_recv

\* three ticks without a counter reset whose deltas are not all zero
C5_Witness ==
    /\ pc = "sleep"
    /\ ticks = 3
    /\ NonNegative(disk_read_history)
    /\ NonNegative(network_send_history)
    /\ disk_read_history[2].num > 0
    /\ disk_read_history[3].num > 0
    /\ Val(last_disk_io).read_bytes = 10240
    /\ SumNum(network_send_history) = 1536

\* psutil read p in full
Readable(p) ==
    /\ ~p.raises
    /\ p.name # None /\ p.cpu_percent # None /\ p.memory_percent # None

RECURSIVE ReadableOnly(_)
ReadableOnly(raw) ==
    IF raw = << >> THEN << >>
    ELSE IF Readable(Head(raw))
         THEN << ProcessDict(Head(raw)) >> \o ReadableOnly(Tail(raw))
         ELSE ReadableOnly(Tail(raw))

\* the tick in progress enumerated the processes
Enumerated == trace # << >> /\ Last(trace).enumerated /\ proc_seen # None

\* C6: a process that cannot be read is left out and nothing else happens:
\* the refresh never raises, and returns the sorted top list of the
\* processes that could be read.
C6_UnreadableProcessOnlySkipped ==
    /\ exc # Raised("TypeError", 60)
    /\ (PastRefresh /\ Enumerated) =>
           processes = Top(SortedDesc(ReadableOnly(Val(proc_seen))))

\* C7: on a fresh engine a tick at t=0 enumerates, a following tick at t=1
\* reuses the cached list, a following tick at t=3 enumerates again.
C7_RefreshScenario ==
    /\ (Len(trace) >= 1 /\ trace[1].t = 0) => trace[1].enumerated
    /\ (Len(trace) >= 2 /\ trace[1].t = 0 /\ trace[2].t = 1)
           => ~trace[2].enumerated
    /\ (Len(trace) >= 3 /\ trace[1].t = 0 /\ trace[2].t = 1 /\ trace[3].t = 3)
           => trace[3].enumerated

\* C8: processes has at most 10 entries in non-increasing order of
\* (cpu, memory), and after a refresh it is the 10 highest-ranked readable
\* processes.
C8_TopTenSortedReadable ==
    /\ Len(processes) <= TopN
    /\ \A i, j \in 1..Len(processes) :
           i < j => ~KeyUnorderable(processes[i], processes[j])
                    /\ ~KeyGT(processes[j], processes[i])
    /\ SortedDesc(processes) = processes
    /\ (PastRefresh /\ Enumerated) =>
           processes = Top(SortedDesc(ReadableOnly(Val(proc_seen))))

\* C9: sampling raises nothing: where psutil has no disk or network counters
\* the tick completes and the delta of that metric is zero.
C9_MissingCounterIsZeroDelta ==
    /\ exc.type # "AttributeError"
    /\ (Sampled /\ (os.disk = None \/ init_disk_io = None))
           => (read_bytes = 0 /\ write_bytes = 0)
    /\ (Sampled /\ (os.net = None \/ init_network_stats = None))
           => (sent_diff = 0 /\ recv_diff = 0)

\* C10: an interrupt delivered at any point of run() makes run() return
\* normally.
C10_InterruptReturnsNormally ==
    interrupted => (pc = "done" /\ exc = NoExc)

\* a get_system_stats call is in progress / none is
InCall == pc \in {"disk", "net", "proc", "log"}
BetweenCalls == pc \in {"cpu", "render", "sleep"}

\* the line the k-th call wrote, rebuilt from the values that call sampled
LineOfTick(k) ==
    [cpu |-> pushed.cpu[k], memory |-> pushed.mem[k],
     disk_read |-> PerSec(_convert_bytes(pushed.disk_read[k].num)),
     disk_write |-> PerSec(_convert_bytes(pushed.disk_write[k].num)),
     network_sent |-> PerSec(_convert_bytes(pushed.net_send[k].num)),
     network_received |-> PerSec(_convert_bytes(pushed.net_recv[k].num))]

\* the measurement fields of a log line
Measured(line) ==
    [cpu |-> line.cpu, memory |-> line.memory,
     disk_read |-> line.disk_read, disk_write |-> line.disk_write,
     network_sent |-> line.network_sent,
     network_received |-> line.network_received]

\* C11: the log only ever grows by one line at its end, the line of the
\* stats the call in progress returns; it holds one line per returned
\* get_system_stats call and none for a call still in progress, the k-th
\* line carrying the cpu, memory, disk and network values of the k-th call.
C11_OneLogLinePerTick ==
    /\ [](BetweenCalls => Len(log_file) = ticks)
    /\ [](InCall => Len(log_file) = ticks - 1)
    /\ [](Len(log_file) <= ticks)
    /\ [](\A k \in 1..Len(log_file) : Measured(log_file[k]) = LineOfTick(k))
    /\ [][ \/ log_file' = log_file
           \/ /\ pc = "log"
              /\ log_file' = Append(log_file, LogLine(stats')) ]_vars

\* three calls have returned and the three lines differ
C11_Witness ==
    /\ pc = "sleep"
    /\ Len(log_file) = 3
    /\ log_file[1].cpu # log_file[2].cpu
    /\ log_file[2].disk_read # log_file[3].disk_read
    /\ log_file[3].cpu = stats.cpu

\* the units of _convert_bytes, a byte count being top.next.low * 1024^shift
AllUnits == Units \o << "PB" >>
UnitOf(n) == AllUnits[Min(n.shift, Len(Units)) + 1]

\* text is the number w + num/den (0 <= num < den) written with two
\* decimals: the nearest hundredth, the even one of two equally near
TwoDecimals(text, w, num, den) ==
    LET c == (text.whole - w) * 100 + text.cents
        err == 100 * num - c * den
    IN  /\ text.cents \in 0..99
        /\ c \in 0..100
        /\ 2 * err <= den /\ 2 * err >= 0 - den
        /\ (2 * err = den \/ 2 * err = 0 - den) => c % 2 = 0

\* text is the byte count n divided by 1024 once per unit passed
ValueUnderUnit(text, n) ==
    LET over == n.shift - Min(n.shift, Len(Units))
    IN  IF over = 0
        THEN TwoDecimals(text, n.top, n.next * Base + n.low, Base * Base)
        ELSE IF over = 1
        THEN TwoDecimals(text, n.top * Base + n.next, n.low, Base)
        ELSE TwoDecimals(text, (n.top * Base + n.next) * Base + n.low, 0, 1)

\* C13: _convert_bytes returns the byte count divided by 1024 step by
\* step under the first of B, KB, MB, GB, TB where it is below 1024, PB
\* beyond, with two decimals; 0 gives 0.00 B, 1536 gives 1.50 KB, 1024 gives
\* 1.00 KB, 1073741824 gives 1.00 GB, and the reported rate ends in /s.
C13_ConvertBytes ==
    cb_ret # None =>
        LET n == Val(cb_num)
            text == Val(cb_ret)
        IN  /\ text.unit = UnitOf(n)
            /\ text.suffix = "/s"
            /\ ValueUnderUnit(text, n)
            /\ (n.shift <= Len(Units) /\ text.unit # "PB")
                   => text.whole * 100 + text.cents <= Base * 100
            /\ n = ByteCount(0, 0, 0, 0)
                   => text = [whole |-> 0, cents |-> 0, unit |-> "B", suffix |-> "/s"]
            /\ n = ByteCount(1, 512, 0, 1)
                   => text = [whole |-> 1, cents |-> 50, unit |-> "KB", suffix |-> "/s"]
            /\ n = ByteCount(1, 0, 0, 1)
                   => text = [whole |-> 1, cents |-> 0, unit |-> "KB", suffix |-> "/s"]
            /\ n = ByteCount(1, 0, 0, 3)
                   => text = [whole |-> 1, cents |-> 0, unit |-> "GB", suffix |-> "/s"]

\* a count that is still above 1024 after the division for TB has been
\* converted
C13_Witness ==
    /\ cb_ret # None
    /\ Val(cb_num) = ByteCount(2, 1019, 1, 6)
    /\ Val(cb_ret) = [whole |-> 3067, cents |-> 0, unit |-> "PB", suffix |-> "/s"]

\* the history entry h is the rate the tick reports as text, in KB
SameRateInKB(h, text, bytes) ==
    /\ h.den = 1024
    /\ h.num = bytes
    /\ text = [_convert_bytes(bytes) EXCEPT !.suffix = "/s"]

\* C12: with a disk read counter of 0 at construction and of 10240 on the
\* first tick one second later, that tick reports 10.00 KB/s and
\* disk_read_history is the single entry 10.0; on every tick the entry
\* appended to a rate history is the reported rate in KB.
C12_RateHistoryInKB ==
    /\ (Reported /\ ticks = 1 /\ elapsed = 1 /\ init_disk_io # None
          /\ Val(init_disk_io).read_bytes = 0
          /\ Val(os.disk).read_bytes = 10240)
        => /\ stats.disk_activity.read =
                  [whole |-> 10, cents |-> 0, unit |-> "KB", suffix |-> "/s"]
           /\ Len(disk_read_history) = 1
           /\ disk_read_history[1].num = 10 * disk_read_history[1].den
    /\ Reported
        => /\ SameRateInKB(Last(disk_read_history), stats.disk_activity.read,
                           read_bytes)
           /\ SameRateInKB(Last(disk_write_history), stats.disk_activity.write,
                           write_bytes)
           /\ SameRateInKB(Last(network_send_history), stats.network.sent,
                           sent_diff)
           /\ SameRateInKB(Last(network_recv_history), stats.network.received,
                           recv_diff)

\* the first tick has run one second after construction and read 10240
C12_Witness ==
    /\ pc = "render"
    /\ ticks = 1
    /\ elapsed = 1
    /\ init_disk_io = DiskIO(0, 0)
    /\ Val(os.disk).read_bytes = 10240
    /\ stats.disk_activity.read.unit = "KB"
    /\ disk_read_history = << [num |-> 10240, den |-> 1024] >>

\* C14: lines 75-77 enumerate the processes if and only if the clock is
\* more than process_update_interval past last_process_update; when they
\* complete, a due tick has stored the new list and the current time, and a
\* tick that is not due, one at exactly the interval included, has kept the
\* cached list and last_process_update.
C14_RefreshIffPastInterval ==
    [][ (pc = "proc" /\ trace' # trace) =>
          LET past == clock - last_process_update > process_update_interval
          IN  /\ Last(trace').enumerated <=> past
              /\ (pc' = "log" /\ past) =>
                     /\ processes' = get_running_processes(os.procs)
                     /\ last_process_update' = clock
              /\ ~past =>
                     /\ pc' = "log"
                     /\ processes' = processes
                     /\ last_process_update' = last_process_update ]_vars

\* a tick exactly process_update_interval after a refresh has reused the
\* list of that refresh
C14_Witness ==
    /\ pc = "log"
    /\ Len(trace) = 2
    /\ trace[1].enumerated
    /\ ~trace[2].enumerated
    /\ last_process_update = trace[1].t
    /\ clock = last_process_update + 2
    /\ processes # << >>

\* C15: a get_system_stats call appends one value to each of the six
\* histories, and each dashboard makes one call: whenever no call is midway
\* through its samples the six histories have the same length, the smaller
\* of maxlen and the number of calls, and the dashboards rendered are as
\* many as the calls that returned.
C15_SixBuffersInStep ==
    /\ (BetweenCalls \/ pc \in {"proc", "log"}) =>
           \A i \in 1..Len(histories) :
               Len(histories[i]) = Min(maxlen, ticks)
    /\ pc \in {"cpu", "sleep"} => renders = ticks
    /\ pc = "render" => renders = ticks - 1

\* more than maxlen ticks have completed
C15_Witness ==
    /\ pc = "sleep"
    /\ ticks = maxlen + 2
    /\ renders = maxlen + 2
    /\ Len(mem_history) = maxlen
    /\ Len(disk_write_history) = maxlen
    /\ Len(network_send_history) = maxlen

\* C16 as stated: within a tick the order is sample, assemble, render, log,
\* sleep, so a tick's log line is in the file only once that tick's
\* dashboard has been rendered, and is there when the tick sleeps.
C16_RenderBeforeLog ==
    /\ Len(log_file) <= renders
    /\ pc = "sleep" => Len(log_file) = ticks

\* C16: within a tick the order is sample, log, render, sleep: the log
\* line of a tick is appended after that tick's samples and before its
\* dashboard is rendered, and both have happened when the tick sleeps.
C16_LogBeforeRender ==
    /\ [](Len(log_file) <= Len(pushed.net_recv))
    /\ [](renders <= Len(log_file) /\ Len(log_file) <= renders + 1)
    /\ [](pc = "sleep" => (Len(log_file) = ticks /\ renders = ticks))
    /\ [][ log_file' # log_file =>
             /\ Len(pushed.cpu) = ticks /\ Len(pushed.net_recv) = ticks
             /\ renders = ticks - 1 /\ renders' = renders ]_vars
    /\ [][ renders' # renders =>
             /\ Len(log_file) = ticks /\ log_file' = log_file
             /\ Last(log_file).cpu = stats.cpu ]_vars
    /\ [][ (pc = "sleep" /\ pc' = "cpu") =>
             (log_file' = log_file /\ renders' = renders) ]_vars

\* the line of the second tick is in the file and its dashboard is not yet
\* rendered
C16_Witness ==
    /\ pc = "render"
    /\ phase = "loop"
    /\ ticks = 2
    /\ Len(log_file) = 2
    /\ renders = 1
    /\ log_file[2].cpu = stats.cpu

\* what last_process_update holds when the j-th tick reaches line 75: the
\* time of the latest enumeration before it, 0 if there was none
RefreshTimeBefore(j) ==
    LET before == { i \in 1..(j - 1) : trace[i].enumerated }
    IN  IF before = { } THEN 0
        ELSE trace[CHOOSE i \in before : \A k \in before : k <= i].t

\* the ticks n+1 .. n+k have run and one of them enumerated the processes
\* or found the clock no later than the tick before it
RefreshOrClockHeld(n, k) ==
    /\ Len(trace) >= n + k
    /\ \E j \in (n + 1)..(n + k) :
           trace[j].enumerated \/ trace[j].t <= trace[j - 1].t

====
